---- MODULE Spec2Model ----
(***************************************************************************)
(* A model of zveinn/timeseries: a filesystem-backed time-series store     *)
(* with one bucket file per calendar minute                                *)
(* (<root>/YYYY/MM/DD/HH/mm.cbor), an in-memory existence cache keyed by   *)
(* year, and the Store / Get / Find / Delete operations.                   *)
(*                                                                         *)
(* The engine modelled is the map-backed one (Client.Cache of type         *)
(* map[int]*[12][31][24][60]struct{}).                                     *)
(*                                                                         *)
(* Time.  A time.Time is a record [min, sec, nsec, off]: min is the        *)
(* instant in whole minutes since 2024-01-01T00:00:00Z, sec the second of  *)
(* the minute, nsec the sub-second part, off the zone offset of the        *)
(* value's Location in minutes east of UTC.  Two values denote the same    *)
(* instant iff they agree on min, sec and nsec.                            *)
(*                                                                         *)
(* Disk.  files maps the path of every existing bucket file to the         *)
(* sequence of records in it; dirs is the set of existing directories.     *)
(* Paths are relative to the root: a sequence of segments, each segment    *)
(* a sequence of one-character strings.  Opts.Path is the root path the    *)
(* client was configured with, a sequence of one-character strings.        *)
(***************************************************************************)
EXTENDS Integers, Sequences, FiniteSets, TLC

VARIABLES files, dirs, Cache, last, stored, base, probe, Opts, walk, put

vars == <<files, dirs, Cache, last, stored, base, probe, Opts, walk, put>>

(***************************************************************************)
(* Bounds of the model.                                                    *)
(***************************************************************************)
\* the largest number of records the disk holds at once
MaxRecords == 3
\* the number of consecutive minutes, starting at base, that calls address
MaxMinutes == 3

(***************************************************************************)
(* Calendar arithmetic of package time (proleptic Gregorian calendar).     *)
(***************************************************************************)
MinutesPerDay == 24 * 60

\* the day number of day doy (counted from March 1) of year yoe of era
DaysInEra(era, yoe, doy) ==
    era * 146097 + yoe * 365 + yoe \div 4 - yoe \div 100 + doy - 719468

\* the day number of day doy of the year yy that starts on March 1
DaysOfYear(yy, doy) == DaysInEra(yy \div 400, yy - (yy \div 400) * 400, doy)

\* the day number (days since 1970-01-01) of the civil date y-m-d, 1 <= m <= 12
DaysFromCivil(y, m, d) ==
    DaysOfYear(IF m <= 2 THEN y - 1 ELSE y,
               (153 * (IF m > 2 THEN m - 3 ELSE m + 9) + 2) \div 5 + d - 1)

\* the day number of 2024-01-01, the day of minute 0
EpochDay == DaysFromCivil(2024, 1, 1)

\* the civil date of day d of month m of the year y that starts on March 1
CivilOfMonth(y, m, d) == <<IF m <= 2 THEN y + 1 ELSE y, m, d>>

\* the civil date of day doy of year y, both counted from March 1, in the
\* month mp counted from March
CivilOfDay(y, mp, doy) ==
    CivilOfMonth(y, IF mp < 10 THEN mp + 3 ELSE mp - 9,
                 doy - (153 * mp + 2) \div 5 + 1)

\* the civil date of day doe of an era, in year yoe of the era
CivilOfYear(era, yoe, doe) ==
    CivilOfDay(yoe + era * 400,
               (5 * (doe - (365 * yoe + yoe \div 4 - yoe \div 100)) + 2) \div 153,
               doe - (365 * yoe + yoe \div 4 - yoe \div 100))

\* the civil date of day doe of an era of 400 years
CivilOfEra(era, doe) ==
    CivilOfYear(era,
                (doe - doe \div 1460 + doe \div 36524 - doe \div 146096) \div 365,
                doe)

\* the civil date <<year, month, day>> of a day number
CivilFromDays(z0) ==
    CivilOfEra((z0 + 719468) \div 146097,
               (z0 + 719468) - ((z0 + 719468) \div 146097) * 146097)

\* time.Date(year, month, day, hour, minute, 0, 0, time.UTC): fields out of
\* range are normalised (month 13 is January of the next year, and so on)
Date(year, month, day, hour, minute) ==
    LET m0 == month - 1
        y  == year + m0 \div 12
        m  == (m0 % 12) + 1
        dn == DaysFromCivil(y, m, 1) + (day - 1) - EpochDay
    IN  [min |-> dn * MinutesPerDay + hour * 60 + minute,
         sec |-> 0, nsec |-> 0, off |-> 0]

\* the last minute of an hour, of a day, of a month, of the February of a
\* leap year and of a year
HourEnd  == Date(2024, 6, 15, 10, 59).min
DayEnd   == Date(2024, 6, 15, 23, 59).min
MonthEnd == Date(2024, 1, 31, 23, 59).min
LeapEnd  == Date(2024, 2, 29, 23, 59).min
YearEnd  == Date(2024, 12, 31, 23, 59).min

\* the minutes after which an hour, a day, a month, the February of a leap
\* year and a year end
Boundaries == {HourEnd, DayEnd, MonthEnd, LeapEnd, YearEnd}

\* the wall clock of t in its own location, in minutes since the epoch
WallMinutes(t) == t.min + t.off

\* the civil dates of the days of 2024 and of the first day of 2025, computed
\* once
CivilDates == [day \in EpochDay..(EpochDay + 366) |-> CivilFromDays(day)]

\* t.Date(): <<year, month, day>> of t in its location
CivilDate(t) ==
    LET day == WallMinutes(t) \div MinutesPerDay + EpochDay
    IN  IF day \in DOMAIN CivilDates THEN CivilDates[day] ELSE CivilFromDays(day)

\* t.Year(), t.Month(), t.Day(), t.Hour(), t.Minute()
Year(t)   == CivilDate(t)[1]
Month(t)  == CivilDate(t)[2]
Day(t)    == CivilDate(t)[3]
Hour(t)   == (WallMinutes(t) % MinutesPerDay) \div 60
Minute(t) == WallMinutes(t) % 60

\* t.Truncate(time.Minute): rounds the instant down to a whole minute and
\* keeps the location
Truncate(t) == [t EXCEPT !.sec = 0, !.nsec = 0]

\* t.Add(time.Hour)
AddMinute_Hour(t) == [t EXCEPT !.min = @ + 60]

\* t.Add(time.Minute)
AddMinute(t) == [t EXCEPT !.min = @ + 1]

\* t.Before(u), t.After(u), t.Equal(u): comparisons of instants
Before(t, u) ==
    \/ t.min < u.min
    \/ t.min = u.min /\ t.sec < u.sec
    \/ t.min = u.min /\ t.sec = u.sec /\ t.nsec < u.nsec

After(t, u) == Before(u, t)

Equal(t, u) == t.min = u.min /\ t.sec = u.sec /\ t.nsec = u.nsec

(***************************************************************************)
(* Strings: a string is a sequence of one-character strings.               *)
(***************************************************************************)
DigitChars == <<"0", "1", "2", "3", "4", "5", "6", "7", "8", "9">>

DigitValue(c) == (CHOOSE i \in 1..10 : DigitChars[i] = c) - 1

IsDigit(c) == \E i \in 1..10 : DigitChars[i] = c

RECURSIVE Digits(_)
\* the decimal digits of n >= 0, without padding
Digits(n) ==
    IF n < 10 THEN <<DigitChars[n + 1]>>
    ELSE Digits(n \div 10) \o <<DigitChars[(n % 10) + 1]>>

RECURSIVE Zeros(_)
Zeros(k) == IF k <= 0 THEN <<>> ELSE <<"0">> \o Zeros(k - 1)

\* the formatting of n with the verb %0<w>d: zero padding to width w, the
\* sign counted in the width and written before the zeros
FormatPadded(w, n) ==
    LET digits == Digits(IF n >= 0 THEN n ELSE 0 - n)
    IN  IF n >= 0
        THEN Zeros(w - Len(digits)) \o digits
        ELSE <<"-">> \o Zeros(w - 1 - Len(digits)) \o digits

\* the results of %02d for the numbers of one or two digits, computed once
TwoDigits == [n \in 0..99 |-> FormatPadded(2, n)]

\* fmt.Sprintf("%0<w>d", n)
Sprintf0d(w, n) ==
    IF w = 2 /\ n \in 0..99 THEN TwoDigits[n] ELSE FormatPadded(w, n)

RECURSIVE DigitsValue(_)
DigitsValue(s) ==
    IF s = <<>> THEN 0
    ELSE DigitsValue(SubSeq(s, 1, Len(s) - 1)) * 10 + DigitValue(s[Len(s)])

\* strconv.Atoi: an optional sign and at least one decimal digit
Atoi(s) ==
    LET signed == s # <<>> /\ s[1] \in {"-", "+"}
        body   == IF signed THEN Tail(s) ELSE s
    IN  IF body = <<>> \/ \E i \in 1..Len(body) : ~IsDigit(body[i])
        THEN [ok |-> FALSE, val |-> 0]
        ELSE [ok |-> TRUE,
              val |-> IF signed /\ s[1] = "-" THEN 0 - DigitsValue(body)
                      ELSE DigitsValue(body)]

(***************************************************************************)
(* Path codec.                                                             *)
(***************************************************************************)
BucketExt == <<".", "c", "b", "o", "r">>

\* filepath.Dir and filepath.Base of a path below the root
PathDir(path) == SubSeq(path, 1, Len(path) - 1)

PathBase(path) == path[Len(path)]

\* filepath.Ext: the suffix of the last segment from its last dot on
PathExt(path) ==
    LET name == PathBase(path)
        dots == {i \in 1..Len(name) : name[i] = "."}
    IN  IF dots = {} THEN <<>>
        ELSE SubSeq(name, CHOOSE i \in dots : \A j \in dots : j <= i, Len(name))

\* filepath.Join(root, fmt.Sprintf("%04d", t.Year()), ...,
\* fmt.Sprintf("%02d.cbor", t.Minute())), relative to the root
JoinPath(t) ==
    LET date == CivilDate(t)
    IN  << Sprintf0d(4, date[1]),
           Sprintf0d(2, date[2]),
           Sprintf0d(2, date[3]),
           Sprintf0d(2, Hour(t)),
           Sprintf0d(2, Minute(t)) \o BucketExt >>

\* the paths of the minutes the calls address, in UTC and an hour ahead of
\* it, computed once
BucketPaths ==
    [w \in {b + k + o : b \in Boundaries, k \in 0..(MaxMinutes - 1), o \in {0, 60}}
        |-> JoinPath([min |-> w, sec |-> 0, nsec |-> 0, off |-> 0])]

\* Client.timeToPath: root/%04d/%02d/%02d/%02d/%02d.cbor from the calendar
\* fields of t in t's own location
timeToPath(t) ==
    IF WallMinutes(t) \in DOMAIN BucketPaths THEN BucketPaths[WallMinutes(t)]
    ELSE JoinPath(t)

\* the result of a failed parse
ParseError == [ok |-> FALSE, t |-> Date(1, 1, 1, 0, 0)]

\* Client.parsePathToTime: four directory segments and a file name, each
\* read with Atoi, assembled by time.Date in UTC
parsePathToTime(path) ==
    LET parts     == PathDir(path)
        filename  == PathBase(path)
        minuteStr == SubSeq(filename, 1, Len(filename) - 5)
    IN  IF Len(parts) # 4 THEN ParseError
        ELSE LET year   == Atoi(parts[1])
                 month  == Atoi(parts[2])
                 day    == Atoi(parts[3])
                 hour   == Atoi(parts[4])
                 minute == Atoi(minuteStr)
             IN  IF ~year.ok \/ ~month.ok \/ ~day.ok \/ ~hour.ok \/ ~minute.ok
                 THEN ParseError
                 ELSE [ok |-> TRUE,
                       t  |-> Date(year.val, month.val, day.val,
                                   hour.val, minute.val)]

(***************************************************************************)
(* Existence cache: map[int]*[12][31][24][60]struct{}.  A cell has the     *)
(* type struct{}, which has a single value, so the array of a year holds   *)
(* no information: the cache is the set of years that have an array.       *)
(***************************************************************************)
EmptyStruct == "struct{}"

\* the indices y, m, d, h, min that setCache and getCache compute from t
CellIndex(t) ==
    LET date == CivilDate(t)
    IN  <<date[1], date[2] - 1, date[3] - 1, Hour(t), Minute(t)>>

\* the value of the cell c.Cache[y][m][d][h][min] of an allocated year
CacheCell(cache, index) == EmptyStruct

\* setCache that stores nothing
setCache_Noop(cache, t) == cache

\* Client.setCache: allocates the array of t's year when it is nil, then
\* stores struct{}{} in the cell of t
setCache(cache, t) == cache \cup {CellIndex(t)[1]}

\* getCache with the test for a missing year inverted
getCache_Inverted(cache, t) ==
    IF CellIndex(t)[1] \in cache THEN FALSE
    ELSE CacheCell(cache, CellIndex(t)) = EmptyStruct

\* Client.getCache: false when the year has no array, else the comparison of
\* the cell with struct{}{}
getCache(cache, t) ==
    IF CellIndex(t)[1] \notin cache THEN FALSE
    ELSE CacheCell(cache, CellIndex(t)) = EmptyStruct

(***************************************************************************)
(* The filesystem below the root.                                          *)
(***************************************************************************)
\* no bucket file at all
EmptyFS == [p \in {} |-> <<>>]

\* the root directory, as a path relative to itself
Root == <<>>

\* root paths a caller may configure: "/data" (absolute and clean, like a
\* test's t.TempDir()), "./data", "/data/" and ""
CleanPath    == <<"/", "d", "a", "t", "a">>
DotPath      == <<".", "/", "d", "a", "t", "a">>
TrailingPath == <<"/", "d", "a", "t", "a", "/">>
EmptyPath    == <<>>

RootPaths == {CleanPath, DotPath, TrailingPath, EmptyPath}

RECURSIVE Elements(_, _)
\* the elements of a path string between its separators, cur being the
\* element read so far
Elements(str, cur) ==
    IF str = <<>> THEN <<cur>>
    ELSE IF Head(str) = "/" THEN <<cur>> \o Elements(Tail(str), <<>>)
    ELSE Elements(Tail(str), Append(cur, Head(str)))

RECURSIVE JoinElements(_)
\* the elements with a separator between them
JoinElements(elems) ==
    IF elems = <<>> THEN <<>>
    ELSE IF Len(elems) = 1 THEN elems[1]
    ELSE elems[1] \o <<"/">> \o JoinElements(Tail(elems))

\* filepath.Clean of a path string without "..": empty and "." elements
\* are dropped, a leading separator is kept, nothing at all becomes "."
Clean(str) ==
    LET rooted == str # <<>> /\ str[1] = "/"
        kept   == SelectSeq(Elements(str, <<>>), LAMBDA e : e # <<>> /\ e # <<".">>)
        joined == JoinElements(kept)
    IN  IF rooted THEN <<"/">> \o joined
        ELSE IF joined = <<>> THEN <<".">>
        ELSE joined

\* filepath.Clean of each root path
Cleaned == [path \in RootPaths |-> Clean(path)]

\* the path string of the directory dir below the root, as filepath.Join
\* and filepath.Dir produce it; the root itself is Clean(c.Opts.Path)
DirString(dir) ==
    LET root == Cleaned[Opts.Path]
        rel  == JoinElements(dir)
    IN  IF dir = Root THEN root
        ELSE IF root = <<".">> THEN rel
        ELSE IF root = <<"/">> THEN root \o rel
        ELSE root \o <<"/">> \o rel

\* os.Stat(path) succeeds
FileExists(fs, path) == path \in DOMAIN fs

\* os.Mkdir in place of os.MkdirAll: dir alone, without its ancestors
MkdirAll_Leaf(ds, dir) == ds \cup {dir}

\* os.MkdirAll(dir): dir and every missing ancestor, the root included
MkdirAll(ds, dir) == ds \cup {SubSeq(dir, 1, k) : k \in 0..Len(dir)}

\* AppendFile writing at the start of the file instead of its end
AppendFile_Prepend(fs, path, data) ==
    [p \in DOMAIN fs \cup {path} |->
        IF p = path
        THEN data \o (IF path \in DOMAIN fs THEN fs[path] ELSE <<>>)
        ELSE fs[p]]

\* the file opened with O_APPEND|O_CREATE after data was written to it
AppendFile(fs, path, data) ==
    [p \in DOMAIN fs \cup {path} |->
        IF p = path
        THEN (IF path \in DOMAIN fs THEN fs[path] ELSE <<>>) \o data
        ELSE fs[p]]

\* os.Remove(path) of a file; a missing file is the not-exist error that
\* Delete ignores
RemoveFile(fs, path) == [p \in DOMAIN fs \ {path} |-> fs[p]]

\* os.ReadDir(dir): the files and directories directly inside dir
ReadDir(ds, fs, dir) ==
    {p \in DOMAIN fs : PathDir(p) = dir}
        \cup {d \in ds : d # Root /\ PathDir(d) = dir}

\* os.Remove of the root directory: "." cannot be removed
RemoveRoot(ds) == IF Cleaned[Opts.Path] = <<".">> THEN ds ELSE ds \ {Root}

\* the loop of Client.cleanEmptyDirs ends: dir == c.Opts.Path || dir == ""
AtRoot(dir) ==
    LET str == DirString(dir)
    IN  str = Opts.Path \/ str = EmptyPath

RECURSIVE cleanEmptyDirs(_, _, _)
\* Client.cleanEmptyDirs: walks up from dir, removing directories while they
\* are readable and empty, until dir is the string c.Opts.Path.  Once the
\* root directory is removed the walk goes on above it, outside the
\* directories that dirs holds.
cleanEmptyDirs(ds, fs, dir) ==
    IF AtRoot(dir) THEN ds
    ELSE IF dir \notin ds \/ ReadDir(ds, fs, dir) # {} THEN ds
    ELSE IF dir = Root THEN RemoveRoot(ds)
    ELSE cleanEmptyDirs(ds \ {dir}, fs, PathDir(dir))

(***************************************************************************)
(* Records.                                                                *)
(***************************************************************************)
\* cbor.Marshal of a time.Time, then decoding: the library's default time
\* mode writes the Unix time in whole seconds, so the instant survives to
\* the second and the location does not
cborTime(t) == [min |-> t.min, sec |-> t.sec, nsec |-> 0, off |-> 0]

\* cbor.Marshal(Entry[T]{Time: date, Data: data}): one self-delimiting
\* record of the bucket's stream
Marshal(date, data) == [Time |-> cborTime(date), Data |-> data]

\* the bytes a write leaves when it stops inside an encoded record
Torn == [torn |-> TRUE]

IsTorn(item) == "torn" \in DOMAIN item

\* dec.Decode in the loop of Client.readFile returns an error that is not
\* io.EOF: the stream holds bytes that are not a whole record
DecodeFails(stream) == \E i \in 1..Len(stream) : IsTorn(stream[i])

\* the entries dec.Decode returns before io.EOF or the first error
Decoded(stream) ==
    IF ~DecodeFails(stream) THEN stream
    ELSE SubSeq(stream, 1,
                (CHOOSE i \in 1..Len(stream) :
                    IsTorn(stream[i]) /\ \A j \in 1..(i - 1) : ~IsTorn(stream[j])) - 1)

(***************************************************************************)
(* Init and buildCache.                                                    *)
(***************************************************************************)
\* info.IsDir() of the entry at path
IsDir(ds, path) == path \in ds

RECURSIVE Walk_ReturnParseErr(_, _, _)
\* Walk whose callback returns the error of parsePathToTime
Walk_ReturnParseErr(ds, paths, cache) ==
    IF paths = {} THEN [cache |-> cache, err |-> FALSE]
    ELSE LET path == CHOOSE p \in paths : TRUE
             rest == paths \ {path}
         IN  IF IsDir(ds, path) THEN Walk_ReturnParseErr(ds, rest, cache)
             ELSE IF PathExt(path) # BucketExt THEN Walk_ReturnParseErr(ds, rest, cache)
             ELSE IF ~parsePathToTime(path).ok THEN [cache |-> cache, err |-> TRUE]
             ELSE Walk_ReturnParseErr(ds, rest,
                                      setCache(cache, parsePathToTime(path).t))

RECURSIVE Walk(_, _, _)
\* filepath.Walk with the callback of Client.buildCache over the entries in
\* paths, directories and files: a file with the extension .cbor whose path
\* parses sets its cache entry and every other entry is passed over; the
\* cache afterwards and whether the walk returns an error
Walk(ds, paths, cache) ==
    IF paths = {} THEN [cache |-> cache, err |-> FALSE]
    ELSE LET path == CHOOSE p \in paths : TRUE
             rest == paths \ {path}
         IN  IF IsDir(ds, path) THEN Walk(ds, rest, cache)
             ELSE IF PathExt(path) # BucketExt THEN Walk(ds, rest, cache)
             ELSE IF ~parsePathToTime(path).ok THEN Walk(ds, rest, cache)
             ELSE Walk(ds, rest, setCache(cache, parsePathToTime(path).t))

\* os.Stat(c.Opts.Path) succeeds: the path names a directory that exists
\* (the empty string names none)
StatRoot(ds) == Opts.Path # EmptyPath /\ Root \in ds

\* Client.buildCache on a fresh client: nothing when the root is missing
buildCache(ds, fs) ==
    IF ~StatRoot(ds) THEN {}
    ELSE Walk(ds, ds \cup DOMAIN fs, {}).cache

\* Client.buildCache returns an error: the one filepath.Walk returns
buildCacheErr(ds, fs) == StatRoot(ds) /\ Walk(ds, ds \cup DOMAIN fs, {}).err

\* Init that fails when os.Stat does not find the root
InitResult_RequireRoot(ds, fs) ==
    [cache |-> buildCache(ds, fs), err |-> ~StatRoot(ds)]

\* Init(opts): the cache of the new client and whether Init returns an
\* error; buildCache is called unless opts.Path is empty
InitResult(ds, fs) ==
    IF Opts.Path = EmptyPath THEN [cache |-> {}, err |-> FALSE]
    ELSE IF buildCacheErr(ds, fs) THEN [cache |-> {}, err |-> TRUE]
    ELSE [cache |-> buildCache(ds, fs), err |-> FALSE]

(***************************************************************************)
(* Store.                                                                  *)
(***************************************************************************)
\* the statements of Client.Store that can fail: os.MkdirAll, cbor.Marshal,
\* os.OpenFile, f.Write before any byte is written, f.Write inside the
\* record, and the comparison of n with len(encoded)
Faults == {"MkdirAll", "Marshal", "OpenFile", "Write", "WriteTorn", "Verify"}

NoFault == "none"

\* Store with the cache set before the record is written
StoreSteps_CacheFirst(ds, fs, cache, date, data, fault) ==
    LET truncated == Truncate(date)
        path      == timeToPath(truncated)
        made      == MkdirAll(ds, PathDir(path))
        set       == setCache(cache, truncated)
    IN  IF fault = "MkdirAll"
        THEN [dirs |-> ds, files |-> fs, cache |-> cache, err |-> TRUE]
        ELSE IF fault \in {"Marshal", "OpenFile"}
        THEN [dirs |-> made, files |-> fs, cache |-> set, err |-> TRUE]
        ELSE IF fault = "Write"
        THEN [dirs |-> made, files |-> AppendFile(fs, path, <<>>),
              cache |-> set, err |-> TRUE]
        ELSE IF fault \in {"WriteTorn", "Verify"}
        THEN [dirs |-> made, files |-> AppendFile(fs, path, <<Torn>>),
              cache |-> set, err |-> TRUE]
        ELSE [dirs |-> made, files |-> AppendFile(fs, path, <<Marshal(date, data)>>),
              cache |-> set, err |-> FALSE]

\* Client.Store(date, data) in which the statement fault fails (none when
\* fault is NoFault): the disk and the cache after the call, and whether it
\* returns an error.  A failed os.MkdirAll creates nothing; os.OpenFile
\* with O_CREATE leaves the file in place when a later statement fails.
StoreSteps(ds, fs, cache, date, data, fault) ==
    LET truncated == Truncate(date)
        path      == timeToPath(truncated)
        made      == MkdirAll(ds, PathDir(path))
    IN  IF fault = "MkdirAll"
        THEN [dirs |-> ds, files |-> fs, cache |-> cache, err |-> TRUE]
        ELSE IF fault \in {"Marshal", "OpenFile"}
        THEN [dirs |-> made, files |-> fs, cache |-> cache, err |-> TRUE]
        ELSE IF fault = "Write"
        THEN [dirs |-> made, files |-> AppendFile(fs, path, <<>>),
              cache |-> cache, err |-> TRUE]
        ELSE IF fault \in {"WriteTorn", "Verify"}
        THEN [dirs |-> made, files |-> AppendFile(fs, path, <<Torn>>),
              cache |-> cache, err |-> TRUE]
        ELSE [dirs |-> made, files |-> AppendFile(fs, path, <<Marshal(date, data)>>),
              cache |-> setCache(cache, truncated), err |-> FALSE]

\* Client.Store(date, data) when no statement fails
StoreResult(ds, fs, cache, date, data) ==
    StoreSteps(ds, fs, cache, date, data, NoFault)

(***************************************************************************)
(* Find, readFile and Get.                                                 *)
(***************************************************************************)
\* InRange that accepts an entry on either side of the window
InRange_Either(entry, from, to) ==
    \/ Equal(entry.Time, from) \/ After(entry.Time, from)
    \/ Equal(entry.Time, to) \/ Before(entry.Time, to)

\* InRange without the lower bound
InRange_NoLowerBound(entry, from, to) ==
    Equal(entry.Time, to) \/ Before(entry.Time, to)

\* InRange with an exclusive upper bound
InRange_OpenEnd(entry, from, to) ==
    /\ Equal(entry.Time, from) \/ After(entry.Time, from)
    /\ Before(entry.Time, to)

\* the test on a decoded entry in Client.readFile
InRange(entry, from, to) ==
    /\ Equal(entry.Time, from) \/ After(entry.Time, from)
    /\ Equal(entry.Time, to) \/ Before(entry.Time, to)

\* os.IsNotExist that recognises no error
IsNotExist_Never(fs, path) == FALSE

\* os.IsNotExist(err) for the error of os.Open or os.Remove on path: the
\* call failed because nothing is at path
IsNotExist(fs, path) == ~FileExists(fs, path)

\* Client.readFile: the entries of the file, in file order, that are handed
\* to fn before io.EOF or a decode error; a missing file gives none
readFile(fs, path, from, to) ==
    IF ~FileExists(fs, path) THEN <<>>
    ELSE SelectSeq(Decoded(fs[path]), LAMBDA entry : InRange(entry, from, to))

\* readFile that returns nil whatever dec.Decode returns
readFileErr_Nil(fs, path) == FALSE

\* Client.readFile returns an error: os.Open fails with an error other
\* than os.IsNotExist, or the file is there and dec.Decode fails
readFileErr(fs, path) ==
    IF ~FileExists(fs, path) THEN ~IsNotExist(fs, path)
    ELSE DecodeFails(fs[path])

\* fn called with the entries ahead of the calls made so far
Deliver_Ahead(out, entries) == entries \o out

\* the calls of fn so far, then one call for each of entries, in order
Deliver(out, entries) == out \o entries

\* os.Stat that finds no file
Stat_NotExist(fs, path) == FALSE

\* os.Stat(path) in Client.Find: TRUE when it returns no error
Stat(fs, path) == FileExists(fs, path)

RECURSIVE FindLoop(_, _, _, _, _, _, _)
\* the loop of Client.Find from current on: the cache afterwards, the
\* entries handed to fn, appended to out, and whether Find returns an error
FindLoop(current, toTrunc, from, to, fs, cache, out) ==
    IF ~Before(current, toTrunc)
    THEN [cache |-> cache, out |-> out, err |-> FALSE]
    ELSE LET path   == timeToPath(current)
             next   == AddMinute(current)
             hit    == getCache(cache, current)
             cached == IF ~hit THEN setCache(cache, current) ELSE cache
             handed == Deliver(out, readFile(fs, path, from, to))
         IN  IF ~hit /\ ~Stat(fs, path)
             THEN FindLoop(next, toTrunc, from, to, fs, cache, out)
             ELSE IF readFileErr(fs, path)
             THEN [cache |-> cached, out |-> handed, err |-> TRUE]
             ELSE FindLoop(next, toTrunc, from, to, fs, cached, handed)

\* Find without the minute added to the truncated end of the window
FindResult_EndExclusive(fs, cache, from, to) ==
    FindLoop(Truncate(from), Truncate(to), from, to, fs, cache, <<>>)

\* Client.Find(from, to, fn)
FindResult(fs, cache, from, to) ==
    FindLoop(Truncate(from), AddMinute(Truncate(to)), from, to, fs, cache, <<>>)

\* the results slice of Client.Get: the Data of every entry Find hands over
GetResults(entries) == [i \in 1..Len(entries) |-> entries[i].Data]

\* Get that returns no results when Find returns an error
GetResult_NilOnError(fs, cache, from, to) ==
    LET r == FindResult(fs, cache, from, to)
    IN  [results |-> IF r.err THEN <<>> ELSE GetResults(r.out),
         err     |-> r.err,
         cache   |-> r.cache]

\* Client.Get(from, to): the results slice its callback has filled when
\* Find returns, the error of Find, and the cache afterwards
GetResult(fs, cache, from, to) ==
    LET r == FindResult(fs, cache, from, to)
    IN  [results |-> GetResults(r.out), err |-> r.err, cache |-> r.cache]

(***************************************************************************)
(* Delete.                                                                 *)
(***************************************************************************)
\* os.Remove(path) returns an error: nothing is at path, or the file is
\* one the process may not remove
RemoveFails(fs, path, denied) == ~FileExists(fs, path) \/ path \in denied

RECURSIVE DeleteLoop_IgnoreRemoveErr(_, _, _, _, _, _)
\* DeleteLoop that goes on after any error of os.Remove
DeleteLoop_IgnoreRemoveErr(current, toTrunc, ds, fs, cache, denied) ==
    IF ~Before(current, toTrunc)
    THEN [dirs |-> ds, files |-> fs, cache |-> cache, err |-> FALSE]
    ELSE IF ~getCache(cache, current)
    THEN DeleteLoop_IgnoreRemoveErr(AddMinute(current), toTrunc, ds, fs, cache, denied)
    ELSE LET path    == timeToPath(current)
             removed == IF RemoveFails(fs, path, denied) THEN fs
                        ELSE RemoveFile(fs, path)
         IN  DeleteLoop_IgnoreRemoveErr(AddMinute(current), toTrunc,
                                        cleanEmptyDirs(ds, removed, PathDir(path)),
                                        removed,
                                        setCache(cache, current),
                                        denied)

RECURSIVE DeleteLoop(_, _, _, _, _, _)
\* the loop of Client.Delete from current on: the disk and the cache
\* afterwards, and whether Delete returns an error; os.Remove fails on the
\* files in denied and when nothing is at path
DeleteLoop(current, toTrunc, ds, fs, cache, denied) ==
    IF ~Before(current, toTrunc)
    THEN [dirs |-> ds, files |-> fs, cache |-> cache, err |-> FALSE]
    ELSE IF ~getCache(cache, current)
    THEN DeleteLoop(AddMinute(current), toTrunc, ds, fs, cache, denied)
    ELSE LET path    == timeToPath(current)
             removed == RemoveFile(fs, path)
         IN  IF RemoveFails(fs, path, denied) /\ ~IsNotExist(fs, path)
             THEN [dirs |-> ds, files |-> fs, cache |-> cache, err |-> TRUE]
             ELSE DeleteLoop(AddMinute(current), toTrunc,
                             cleanEmptyDirs(ds, removed, PathDir(path)),
                             removed,
                             setCache(cache, current),
                             denied)

\* Delete with the minute of to inside its window
DeleteResult_InclusiveEnd(ds, fs, cache, from, to) ==
    DeleteLoop(Truncate(from), AddMinute(Truncate(to)), ds, fs, cache, {})

\* Client.Delete(from, to)
DeleteResult(ds, fs, cache, from, to) ==
    DeleteLoop(Truncate(from), Truncate(to), ds, fs, cache, {})

\* Client.Delete(from, to) while os.Remove fails on the files in denied
DeleteSteps(ds, fs, cache, from, to, denied) ==
    DeleteLoop(Truncate(from), Truncate(to), ds, fs, cache, denied)

(***************************************************************************)
(* Inputs of the calls.                                                    *)
(***************************************************************************)
\* the payloads of type T: the engine encodes and decodes a payload and
\* never looks into it, so two values are enough to tell records apart
Payloads == {1, 2}

\* the seconds at which calls are made in the k-th minute: the first minute
\* is addressed at two instants, the later ones at their start
Seconds(k) == IF k = 0 THEN {0, 30} ELSE {0}

\* a UTC time value
UTC(m, s) == [min |-> m, sec |-> s, nsec |-> 0, off |-> 0]


\* the minutes calls address: MaxMinutes consecutive minutes from base on
Minutes == {UTC(base + k, 0) : k \in 0..(MaxMinutes - 1)}

\* the timestamps calls are made with
Times ==
    UNION {{UTC(base + k, s) : s \in Seconds(k)} : k \in 0..(MaxMinutes - 1)}

RECURSIVE TotalRecords(_, _)
\* the number of records in the files at paths
TotalRecords(fs, paths) ==
    IF paths = {} THEN 0
    ELSE LET path == CHOOSE p \in paths : TRUE
         IN  Len(fs[path]) + TotalRecords(fs, paths \ {path})

(***************************************************************************)
(* The state machine.  last is the most recent call: its name, whether it   *)
(* returned an error and, for a Get, the cache it started from.            *)
(* stored[p] is the sequence of the Store calls that returned nil          *)
(* into the bucket file p since p was last absent.  probe is a time value  *)
(* on its way through timeToPath and parsePathToTime.                      *)
(***************************************************************************)
NoProbe == [stage |-> "idle", t |-> UTC(0, 0), path |-> <<>>, parsed |-> ParseError]

Call(op, err) ==
    [op |-> op, err |-> err, cache |-> IF op = "Get" THEN Cache ELSE {}]

\* the Store calls that are still on record once the disk is fs
Forget(fs) == [p \in DOMAIN fs |-> stored[p]]

\* the Store calls on record after Store(t, v)
Remember(t, v) ==
    LET path == timeToPath(t)
        call == [Time |-> t, Data |-> v]
    IN  [p \in DOMAIN stored \cup {path} |->
            IF p # path THEN stored[p]
            ELSE IF path \in DOMAIN stored THEN Append(stored[path], call)
            ELSE <<call>>]

\* the Store calls on record for minute m
StoredIn(m) ==
    IF timeToPath(m) \in DOMAIN stored THEN stored[timeToPath(m)] ELSE <<>>

\* no call of cleanEmptyDirs is under way
NoWalk == [pc |-> "idle", dir |-> <<>>, other |-> FALSE, min |-> 0]

\* no call of Store is under way statement by statement
NoPut == [pc |-> "idle", t |-> [min |-> 0, sec |-> 0, nsec |-> 0, off |-> 0],
          v |-> 0, err |-> FALSE, k |-> 0]

\* Init[T](Options{Path: path}) on a root that is missing or empty; the
\* directory that an empty path stands for, the working directory, exists
InitWith(b, path) ==
    /\ base = b
    /\ Opts = [Path |-> path]
    /\ dirs \in IF path = EmptyPath THEN {{Root}} ELSE {{}, {Root}}
    /\ files = EmptyFS
    /\ Cache = InitResult(dirs, files).cache
    /\ last = [op |-> "Init", err |-> InitResult(dirs, files).err, cache |-> {}]
    /\ stored = EmptyFS
    /\ probe = NoProbe
    /\ walk = NoWalk
    /\ put = NoPut

\* Init[T](Options{Path: tmpDir}) as the tests call it
InitAt(b) == InitWith(b, CleanPath)

Init == InitAt(YearEnd)

\* Init[T](Options{Path: root}) again on the same root: a new client whose
\* cache is built from the disk
Reinit ==
    /\ LET r == InitResult(dirs, files)
       IN  /\ Cache' = r.cache
           /\ last' = Call("Init", r.err)
    /\ UNCHANGED <<files, dirs, stored, base, probe, Opts, walk, put>>

\* the disk has room for one more record
CanStore == TotalRecords(files, DOMAIN files) < MaxRecords

\* client.Store(t, v)
Store(t, v) ==
    /\ CanStore
    /\ LET r == StoreResult(dirs, files, Cache, t, v)
       IN  /\ files' = r.files
           /\ dirs' = r.dirs
           /\ Cache' = r.cache
    /\ last' = Call("Store", FALSE)
    /\ stored' = Remember(t, v)
    /\ UNCHANGED <<base, probe, Opts, walk, put>>

\* client.Get(from, to): a call of Find with the fn that collects the
\* entries it is handed; the state keeps what Find did to the cache
Get(from, to) ==
    /\ LET r == GetResult(files, Cache, from, to)
       IN  /\ Cache' = r.cache
           /\ last' = Call("Get", r.err)
    /\ UNCHANGED <<files, dirs, stored, base, probe, Opts, walk, put>>

\* client.Delete(from, to)
Delete(from, to) ==
    /\ LET r == DeleteResult(dirs, files, Cache, from, to)
       IN  /\ files' = r.files
           /\ dirs' = r.dirs
           /\ Cache' = r.cache
           /\ stored' = Forget(r.files)
           /\ last' = Call("Delete", r.err)
    /\ UNCHANGED <<base, probe, Opts, walk, put>>

\* client.Store(t, v) in which the statement fault fails
StoreFails(t, v, fault) ==
    /\ CanStore
    /\ LET r == StoreSteps(dirs, files, Cache, t, v, fault)
       IN  /\ files' = r.files
           /\ dirs' = r.dirs
           /\ Cache' = r.cache
           /\ last' = Call("Store", r.err)
           /\ stored' = [p \in DOMAIN r.files |->
                            IF p \in DOMAIN stored THEN stored[p] ELSE <<>>]
    /\ UNCHANGED <<base, probe, Opts, walk, put>>

\* Store(t, v) by a second client on the same root: the disk changes, the
\* cache of this client does not
OtherStore(t, v) ==
    /\ CanStore
    /\ LET r == StoreResult(dirs, files, {}, t, v)
       IN  /\ files' = r.files
           /\ dirs' = r.dirs
    /\ last' = Call("OtherStore", FALSE)
    /\ stored' = Remember(t, v)
    /\ UNCHANGED <<Cache, base, probe, Opts, walk, put>>

Next ==
    \/ \E t \in Times, v \in Payloads : Store(t, v)
    \/ \E from \in Times, to \in Times : Get(from, to)
    \/ \E from \in Times, to \in Times : Delete(from, to)
    \/ Reinit

\* one client, alone on its root
Spec == Init /\ [][Next]_vars

NextShared ==
    \/ Next
    \/ \E t \in Times, v \in Payloads : OtherStore(t, v)

\* one client, and a second one that stores into the same root
SpecShared == Init /\ [][NextShared]_vars

\* the minutes of the Store calls that fail: the first two, so that a
\* bucket that fails to decode has one before it and one after it
FaultMinutes == {UTC(base, 0), UTC(base + 1, 0)}

\* a failing Store writes no payload, so one payload stands for all
NextFaulty ==
    \/ \E t \in Times, v \in Payloads : Store(t, v)
    \/ \E t \in FaultMinutes, fault \in Faults : StoreFails(t, 1, fault)
    \/ \E from \in Times, to \in Times : Get(from, to)

\* one client whose Store calls may fail
SpecFaulty == Init /\ [][NextFaulty]_vars


InitBoundary == \E b \in Boundaries : InitAt(b)

\* one client whose first minute is the last one before a boundary
SpecBoundary == InitBoundary /\ [][Next]_vars

\* Init[T](Options{Path: path}) with any of the root paths
InitAnyRoot == \E path \in RootPaths : InitWith(YearEnd, path)

\* a client on any root path that stores, reads and is restarted
NextInit ==
    \/ \E t \in Times, v \in Payloads : Store(t, v)
    \/ \E from, to \in Times : Get(from, to)
    \/ Reinit

SpecInit == InitAnyRoot /\ [][NextInit]_vars

\* Init[T](Options{Path: path}) with an absolute, a relative or a
\* trailing-separator root path
InitRoots ==
    \E path \in {CleanPath, DotPath, TrailingPath} : InitWith(YearEnd, path)

\* a client on such a root path that stores, reads and deletes
NextRoots ==
    \/ \E t \in Times, v \in Payloads : Store(t, v)
    \/ \E from, to \in Times : Get(from, to)
    \/ \E from, to \in Times : Delete(from, to)

SpecRoots == InitRoots /\ [][NextRoots]_vars

\* the directory of the buckets of the first hour
HourDir == PathDir(timeToPath(UTC(base, 0)))

\* entries under the root that are no bucket files: a directory named like
\* a bucket, a file with another extension, a .cbor file outside the
\* year/month/day/hour directories and one whose name is no number
StrayDir   == Append(HourDir, <<"5", "8", ".", "c", "b", "o", "r">>)
StrayText  == Append(HourDir, <<"5", "9", ".", "t", "x", "t">>)
StrayShort == << <<"s", "t", "r", "a", "y", ".", "c", "b", "o", "r">> >>
StrayName  == Append(HourDir, <<"x", "x", ".", "c", "b", "o", "r">>)

StrayFiles == {StrayText, StrayShort, StrayName}

\* something other than the client creates the directory path under the
\* root
LitterDir(path) ==
    /\ path \notin dirs
    /\ dirs' = MkdirAll(dirs, path)
    /\ last' = Call("Litter", FALSE)
    /\ UNCHANGED <<files, Cache, stored, base, probe, Opts, walk, put>>

\* something other than the client creates the empty file path under the
\* root
LitterFile(path) ==
    /\ ~FileExists(files, path)
    /\ dirs' = MkdirAll(dirs, PathDir(path))
    /\ files' = AppendFile(files, path, <<>>)
    /\ last' = Call("Litter", FALSE)
    /\ UNCHANGED <<Cache, stored, base, probe, Opts, walk, put>>

\* a client on a root that holds other entries besides its buckets and is
\* restarted
NextStray ==
    \/ \E t \in Times : Store(t, 1)
    \/ LitterDir(StrayDir)
    \/ \E path \in StrayFiles : LitterFile(path)
    \/ Reinit

SpecStray == Init /\ [][NextStray]_vars

\* client.Delete(from, to) while the bucket file of minute m cannot be
\* removed
DeleteDenied(from, to, m) ==
    /\ LET r == DeleteSteps(dirs, files, Cache, from, to, {timeToPath(m)})
       IN  /\ files' = r.files
           /\ dirs' = r.dirs
           /\ Cache' = r.cache
           /\ stored' = Forget(r.files)
           /\ last' = Call("Delete", r.err)
    /\ UNCHANGED <<base, probe, Opts, walk, put>>

\* the minute whose bucket cannot be removed
DeniedMinute == UTC(base + 1, 0)

\* a client whose Delete calls may meet a file that cannot be removed
NextDenied ==
    \/ \E t \in Times, v \in Payloads : Store(t, v)
    \/ \E from, to \in Times : Get(from, to)
    \/ \E from, to \in Times : Delete(from, to)
    \/ \E from, to \in Times : DeleteDenied(from, to, DeniedMinute)

SpecDenied == Init /\ [][NextDenied]_vars

\* .cbor files whose names parse although they are no path timeToPath
\* makes: 2024/12/31/23/60.cbor, 2024/13/01/00/00.cbor and 2025/1/1/0/0.cbor
Minute60  == Append(HourDir, <<"6", "0", ".", "c", "b", "o", "r">>)
Month13   == << <<"2", "0", "2", "4">>, <<"1", "3">>, <<"0", "1">>, <<"0", "0">>,
                <<"0", "0", ".", "c", "b", "o", "r">> >>
Unpadded  == << <<"2", "0", "2", "5">>, <<"1">>, <<"1">>, <<"0">>,
                <<"0", ".", "c", "b", "o", "r">> >>

MisnamedFiles == {Minute60, Month13, Unpadded}

\* a client on a root that holds such files; it stores into the first
\* minute, the last one of 2024, and is restarted
NextMisnamed ==
    \/ \E s \in Seconds(0), v \in Payloads : Store(UTC(base, s), v)
    \/ \E path \in MisnamedFiles : LitterFile(path)
    \/ Reinit

SpecMisnamed == Init /\ [][NextMisnamed]_vars

\* the timestamps of Times and two inside a second of the first minute
PreciseTimes ==
    Times \cup {[min |-> base, sec |-> s, nsec |-> 500000000, off |-> 0] : s \in {0, 30}}

\* a client called with timestamps that carry a fraction of a second
NextPrecise ==
    \/ \E t \in PreciseTimes, v \in Payloads : Store(t, v)
    \/ \E from, to \in PreciseTimes : Get(from, to)

SpecPrecise == Init /\ [][NextPrecise]_vars

TypeOK ==
    /\ DOMAIN files \subseteq {timeToPath(m) : m \in Minutes}
    /\ Cache \subseteq {Year(m) : m \in Minutes}
    /\ last.op \in {"Init", "Store", "Get", "Delete", "OtherStore"}
    /\ last.err \in BOOLEAN
    /\ Opts.Path \in RootPaths
    /\ walk.pc \in {"idle", "test", "read", "remove", "done"}

(***************************************************************************)
(* The path codec on its own: a time value is picked, timeToPath encodes   *)
(* it and parsePathToTime decodes the path.                                *)
(***************************************************************************)
\* the zone offsets of the time values, in minutes east of UTC
Offsets == {0, 60, -300}

\* the minutes of the time values: both sides of every boundary, the same
\* minute an hour later, and a year of three digits
CodecMinutes ==
    UNION {{b, b + 1, b + 60} : b \in Boundaries} \cup {Date(999, 3, 1, 0, 0).min}

CodecTimes ==
    {[min |-> m, sec |-> s, nsec |-> 0, off |-> o] :
        m \in CodecMinutes, s \in {0, 59}, o \in Offsets}

\* a time value is picked
Pick(t) ==
    /\ probe.stage \in {"idle", "parsed"}
    /\ probe' = [NoProbe EXCEPT !.stage = "input", !.t = t]
    /\ UNCHANGED <<files, dirs, Cache, last, stored, base, Opts, walk, put>>

\* timeToPath(t)
Encode ==
    /\ probe.stage = "input"
    /\ probe' = [probe EXCEPT !.stage = "path", !.path = timeToPath(probe.t)]
    /\ UNCHANGED <<files, dirs, Cache, last, stored, base, Opts, walk, put>>

\* parsePathToTime(path)
Decode ==
    /\ probe.stage = "path"
    /\ probe' = [probe EXCEPT !.stage = "parsed",
                              !.parsed = parsePathToTime(probe.path)]
    /\ UNCHANGED <<files, dirs, Cache, last, stored, base, Opts, walk, put>>

NextCodec ==
    \/ \E t \in CodecTimes : Pick(t)
    \/ Encode
    \/ Decode

SpecCodec == Init /\ [][NextCodec]_vars

(***************************************************************************)
(* The slice-backed engine of src/main.go: Client.Cache is a slice of      *)
(* CacheEntry{Time, Path}.  Under SpecSlice the variable Cache holds that  *)
(* slice as a sequence.                                                    *)
(***************************************************************************)
RECURSIVE SortSlice(_)
\* sort.Slice(c.Cache, ...Time.Before...): ascending by Time
SortSlice(cache) ==
    IF cache = <<>> THEN <<>>
    ELSE LET i == CHOOSE k \in 1..Len(cache) :
                      \A j \in 1..Len(cache) : ~Before(cache[j].Time, cache[k].Time)
         IN  <<cache[i]>> \o SortSlice(SubSeq(cache, 1, i - 1)
                                        \o SubSeq(cache, i + 1, Len(cache)))

\* updateCache that appends without sorting
updateCache_NoSort(cache, t, path) ==
    IF \E i \in 1..Len(cache) : Equal(cache[i].Time, t) THEN cache
    ELSE Append(cache, [Time |-> t, Path |-> path])

\* Client.updateCache(t, path): nothing when an entry has the time t, else
\* the entry is appended and the slice sorted
updateCache(cache, t, path) ==
    IF \E i \in 1..Len(cache) : Equal(cache[i].Time, t) THEN cache
    ELSE SortSlice(Append(cache, [Time |-> t, Path |-> path]))

\* Client.removeFromCache(t): the first entry with the time t is cut out
removeFromCache(cache, t) ==
    LET hits == {i \in 1..Len(cache) : Equal(cache[i].Time, t)}
    IN  IF hits = {} THEN cache
        ELSE LET i == CHOOSE k \in hits : \A j \in hits : k <= j
             IN  SubSeq(cache, 1, i - 1) \o SubSeq(cache, i + 1, Len(cache))

RECURSIVE WalkSlice(_, _, _)
\* filepath.Walk with the callback of buildCache in src/main.go: a file
\* with the extension .cbor whose path parses is appended to the slice
WalkSlice(ds, paths, cache) ==
    IF paths = {} THEN cache
    ELSE LET path == CHOOSE p \in paths : TRUE
             rest == paths \ {path}
         IN  IF IsDir(ds, path) THEN WalkSlice(ds, rest, cache)
             ELSE IF PathExt(path) # BucketExt THEN WalkSlice(ds, rest, cache)
             ELSE IF ~parsePathToTime(path).ok THEN WalkSlice(ds, rest, cache)
             ELSE WalkSlice(ds, rest,
                            Append(cache, [Time |-> parsePathToTime(path).t,
                                           Path |-> path]))

\* Client.buildCache of src/main.go: empty when the root is missing, else
\* the walked entries, sorted
buildCacheSlice(ds, fs) ==
    IF ~StatRoot(ds) THEN <<>>
    ELSE SortSlice(WalkSlice(ds, ds \cup DOMAIN fs, <<>>))

\* Client.Store of src/main.go when no statement fails: the record is
\* appended to the bucket file and updateCache(truncated, path) is called
StoreSlice(ds, fs, cache, date, data) ==
    LET truncated == Truncate(date)
        path      == timeToPath(truncated)
    IN  [dirs  |-> MkdirAll(ds, PathDir(path)),
         files |-> AppendFile(fs, path, <<Marshal(date, data)>>),
         cache |-> updateCache(cache, truncated, path)]

RECURSIVE ToRemove(_, _, _, _)
\* the first loop of Client.Delete of src/main.go from entry i on: the
\* entries from fromTrunc on, up to the first one at or after toTrunc
ToRemove(cache, i, fromTrunc, toTrunc) ==
    IF i > Len(cache) THEN <<>>
    ELSE IF Before(cache[i].Time, fromTrunc)
    THEN ToRemove(cache, i + 1, fromTrunc, toTrunc)
    ELSE IF After(cache[i].Time, toTrunc) \/ Equal(cache[i].Time, toTrunc)
    THEN <<>>
    ELSE <<cache[i]>> \o ToRemove(cache, i + 1, fromTrunc, toTrunc)

RECURSIVE RemoveAll(_, _, _, _)
\* the second loop of Client.Delete of src/main.go: each file is removed,
\* its entry cut out of the slice and its directories pruned
RemoveAll(toRemove, ds, fs, cache) ==
    IF toRemove = <<>> THEN [dirs |-> ds, files |-> fs, cache |-> cache]
    ELSE LET entry   == Head(toRemove)
             removed == RemoveFile(fs, entry.Path)
         IN  RemoveAll(Tail(toRemove),
                       cleanEmptyDirs(ds, removed, PathDir(entry.Path)),
                       removed,
                       removeFromCache(cache, entry.Time))

\* Client.Delete(from, to) of src/main.go
DeleteSlice(ds, fs, cache, from, to) ==
    RemoveAll(ToRemove(cache, 1, Truncate(from), Truncate(to)), ds, fs, cache)

\* a timestamp of the first minute in a location an hour ahead of UTC
AheadOfUTC == [min |-> base, sec |-> 0, nsec |-> 0, off |-> 60]

SliceTimes == Times \cup {AheadOfUTC}

\* Init[T](Options{Path: tmpDir}) of src/main.go on a root that is missing
\* or empty
InitSlice ==
    /\ base = YearEnd
    /\ Opts = [Path |-> CleanPath]
    /\ dirs \in {{}, {Root}}
    /\ files = EmptyFS
    /\ Cache = buildCacheSlice(dirs, files)
    /\ last = [op |-> "Init", err |-> FALSE, cache |-> {}]
    /\ stored = EmptyFS
    /\ probe = NoProbe
    /\ walk = NoWalk
    /\ put = NoPut

\* a new client of src/main.go on the same root
ReinitSlice ==
    /\ Cache' = buildCacheSlice(dirs, files)
    /\ last' = Call("Init", FALSE)
    /\ UNCHANGED <<files, dirs, stored, base, probe, Opts, walk, put>>

\* client.Store(t, v) of src/main.go
StoreInSlice(t, v) ==
    /\ CanStore
    /\ LET r == StoreSlice(dirs, files, Cache, t, v)
       IN  /\ files' = r.files
           /\ dirs' = r.dirs
           /\ Cache' = r.cache
    /\ last' = Call("Store", FALSE)
    /\ UNCHANGED <<stored, base, probe, Opts, walk, put>>

\* client.Delete(from, to) of src/main.go
DeleteInSlice(from, to) ==
    /\ LET r == DeleteSlice(dirs, files, Cache, from, to)
       IN  /\ files' = r.files
           /\ dirs' = r.dirs
           /\ Cache' = r.cache
    /\ last' = Call("Delete", FALSE)
    /\ UNCHANGED <<stored, base, probe, Opts, walk, put>>

NextSlice ==
    \/ \E t \in SliceTimes, v \in Payloads : StoreInSlice(t, v)
    \/ \E from, to \in SliceTimes : DeleteInSlice(from, to)
    \/ ReinitSlice

SpecSlice == InitSlice /\ [][NextSlice]_vars

\* the timestamps of Times, and each of them in a location an hour ahead of
\* UTC
ZonedTimes == Times \cup {[t EXCEPT !.off = 60] : t \in Times}

NextZoned ==
    \/ \E t \in ZonedTimes, v \in Payloads : Store(t, v)
    \/ \E from, to \in Times : Get(from, to)
    \/ Reinit

SpecZoned == Init /\ [][NextZoned]_vars

(***************************************************************************)
(* Client.cleanEmptyDirs statement by statement.  walk.dir is the string   *)
(* the loop holds in dir, walk.pc the statement it is at, and walk.other   *)
(* tells whether the directory that holds the root (the working directory  *)
(* itself when the root path is empty) has entries the engine did not make.*)
(***************************************************************************)
\* filepath.Dir of a cleaned path string: "." and "/" are their own parents
FilepathDir(str) ==
    IF str = <<".">> \/ str = <<"/">> THEN str
    ELSE IF Len(Elements(str, <<>>)) = 1 THEN <<".">>
    ELSE IF SubSeq(Elements(str, <<>>), 1, Len(Elements(str, <<>>)) - 1) = << <<>> >>
    THEN <<"/">>
    ELSE JoinElements(SubSeq(Elements(str, <<>>), 1, Len(Elements(str, <<>>)) - 1))

\* the directories on disk at or below the root whose path string is str
DirsAt(ds, str) == {d \in ds : DirString(d) = str}

\* str names the directory that holds the root directory
AboveRoot(str) == str \in {<<".">>, <<"/">>} /\ str # DirString(Root)

\* os.ReadDir(str) returns an error: nothing is at str
ReadDirErr(ds, str) == DirsAt(ds, str) = {} /\ ~AboveRoot(str)

\* len(entries) > 0 for the entries os.ReadDir(str) returns
HasEntries(ds, fs, str, other) ==
    IF AboveRoot(str) THEN Root \in ds \/ other
    ELSE \E d \in DirsAt(ds, str) :
             \/ ReadDir(ds, fs, d) # {}
             \/ d = Root /\ Opts.Path = EmptyPath /\ other

\* os.RemoveAll in place of os.Remove: the directory goes with all it holds
RemoveDir_All(ds, fs, str) ==
    IF AboveRoot(str) \/ Root \in DirsAt(ds, str) THEN [dirs |-> ds, files |-> fs]
    ELSE [dirs  |-> {d \in ds : \A r \in DirsAt(ds, str) :
                         Len(d) < Len(r) \/ SubSeq(d, 1, Len(r)) # r},
          files |-> [q \in {f \in DOMAIN fs : \A r \in DirsAt(ds, str) :
                                 SubSeq(f, 1, Len(r)) # r} |-> fs[q]]]

\* os.Remove(str) of a directory, its error dropped: a directory that
\* holds an entry stays, and so do the working directory "." and the
\* directory that holds the root
RemoveDir(ds, fs, str) ==
    IF AboveRoot(str) THEN [dirs |-> ds, files |-> fs]
    ELSE IF \E d \in DirsAt(ds, str) : ReadDir(ds, fs, d) # {}
    THEN [dirs |-> ds, files |-> fs]
    ELSE IF Root \in DirsAt(ds, str) THEN [dirs |-> RemoveRoot(ds), files |-> fs]
    ELSE [dirs |-> ds \ DirsAt(ds, str), files |-> fs]

\* Client.Delete(m, m plus a minute) up to its call of cleanEmptyDirs: the
\* cache reports m, the bucket file is removed, the entry set again
DeleteBegin(m, other) ==
    /\ walk.pc \in {"idle", "done"}
    /\ getCache(Cache, m)
    /\ files' = RemoveFile(files, timeToPath(m))
    /\ Cache' = setCache(Cache, m)
    /\ stored' = Forget(RemoveFile(files, timeToPath(m)))
    /\ walk' = [pc |-> "test", dir |-> DirString(PathDir(timeToPath(m))),
                other |-> other, min |-> m.min]
    /\ UNCHANGED <<dirs, last, base, probe, Opts, put>>

\* the loop condition: dir != c.Opts.Path && dir != ""; when it is false
\* cleanEmptyDirs returns and Delete with it
WalkTest ==
    /\ walk.pc = "test"
    /\ IF walk.dir # Opts.Path /\ walk.dir # EmptyPath
       THEN walk' = [walk EXCEPT !.pc = "read"] /\ UNCHANGED last
       ELSE walk' = [walk EXCEPT !.pc = "done"] /\ last' = Call("Delete", FALSE)
    /\ UNCHANGED <<files, dirs, Cache, stored, base, probe, Opts, put>>

\* os.ReadDir(dir) and the break on an error or on entries
WalkRead ==
    /\ walk.pc = "read"
    /\ IF ReadDirErr(dirs, walk.dir) \/ HasEntries(dirs, files, walk.dir, walk.other)
       THEN walk' = [walk EXCEPT !.pc = "done"] /\ last' = Call("Delete", FALSE)
       ELSE walk' = [walk EXCEPT !.pc = "remove"] /\ UNCHANGED last
    /\ UNCHANGED <<files, dirs, Cache, stored, base, probe, Opts, put>>

\* os.Remove(dir); dir = filepath.Dir(dir)
WalkRemove ==
    /\ walk.pc = "remove"
    /\ dirs' = RemoveDir(dirs, files, walk.dir).dirs
    /\ files' = RemoveDir(dirs, files, walk.dir).files
    /\ stored' = Forget(RemoveDir(dirs, files, walk.dir).files)
    /\ walk' = [walk EXCEPT !.pc = "test", !.dir = FilepathDir(walk.dir)]
    /\ UNCHANGED <<Cache, last, base, probe, Opts, put>>

\* the statements of a running cleanEmptyDirs
WalkStep == WalkTest \/ WalkRead \/ WalkRemove

\* a client on any root path that stores and deletes single minutes, one
\* call after the other
NextWalk ==
    \/ \E t \in Times : walk.pc \in {"idle", "done"} /\ Store(t, 1)
    \/ \E m \in Minutes, other \in BOOLEAN : DeleteBegin(m, other)
    \/ WalkTest
    \/ WalkRead
    \/ WalkRemove

\* a call that has started runs on: its statements are executed one after
\* the other
SpecWalk == InitAnyRoot /\ [][NextWalk]_vars /\ WF_vars(WalkStep)

(***************************************************************************)
(* Store, statement by statement, next to a Delete that is pruning         *)
(***************************************************************************)

\* the bucket file of the Store under way
PutPath == timeToPath(Truncate(put.t))

\* Store(t, v) up to its call of os.MkdirAll: the time is truncated and the
\* path computed; the Delete under way, if any, is of another minute
StoreBegin(t, v) ==
    /\ put.pc \in {"idle", "done"}
    /\ CanStore
    /\ walk.pc \in {"idle", "done"} \/ walk.min # t.min
    /\ put' = [pc |-> "mkdir", t |-> t, v |-> v, err |-> FALSE, k |-> 0]
    /\ UNCHANGED <<files, dirs, Cache, last, stored, base, probe, Opts, walk>>

\* os.MkdirAll(dir), one directory per step from the root down: a
\* directory that is there is passed, a missing one is made with os.Mkdir,
\* which fails when its parent has gone; Store returns that error
StoreMkdir ==
    /\ put.pc = "mkdir"
    /\ LET dir == PathDir(PutPath)
           d   == SubSeq(dir, 1, put.k)
           nxt == IF put.k = Len(dir) THEN [put EXCEPT !.pc = "open"]
                  ELSE [put EXCEPT !.k = put.k + 1]
       IN  IF d \in dirs
           THEN put' = nxt /\ UNCHANGED <<dirs, last>>
           ELSE IF put.k > 0 /\ SubSeq(dir, 1, put.k - 1) \notin dirs
           THEN /\ put' = [put EXCEPT !.pc = "done", !.err = TRUE]
                /\ last' = Call("Store", TRUE)
                /\ UNCHANGED dirs
           ELSE /\ dirs' = dirs \cup {d}
                /\ put' = nxt
                /\ UNCHANGED last
    /\ UNCHANGED <<files, Cache, stored, base, probe, Opts, walk>>

\* os.OpenFile(path, O_APPEND|O_CREATE|O_WRONLY): the file is made when it
\* is missing; with its directory gone the call fails and Store returns
\* the error
StoreOpen ==
    /\ put.pc = "open"
    /\ IF PathDir(PutPath) \in dirs
       THEN /\ files' = AppendFile(files, PutPath, <<>>)
            /\ stored' = [p \in DOMAIN stored \cup {PutPath} |->
                            IF p \in DOMAIN stored THEN stored[p] ELSE <<>>]
            /\ put' = [put EXCEPT !.pc = "write"]
            /\ UNCHANGED last
       ELSE /\ put' = [put EXCEPT !.pc = "done", !.err = TRUE]
            /\ last' = Call("Store", TRUE)
            /\ UNCHANGED <<files, stored>>
    /\ UNCHANGED <<dirs, Cache, base, probe, Opts, walk>>

\* file.Write(encoded) on the open file
StoreWrite ==
    /\ put.pc = "write"
    /\ files' = AppendFile(files, PutPath, <<Marshal(put.t, put.v)>>)
    /\ stored' = Remember(put.t, put.v)
    /\ put' = [put EXCEPT !.pc = "cache"]
    /\ UNCHANGED <<dirs, Cache, last, base, probe, Opts, walk>>

\* c.setCache(t) and return nil
StoreReturn ==
    /\ put.pc = "cache"
    /\ Cache' = setCache(Cache, Truncate(put.t))
    /\ put' = [put EXCEPT !.pc = "done"]
    /\ last' = Call("Store", FALSE)
    /\ UNCHANGED <<files, dirs, stored, base, probe, Opts, walk>>

\* Delete(m, m plus a minute) while no Store into m is under way or has
\* returned
DeleteOther(m) ==
    /\ put.pc = "idle" \/ m.min # put.t.min
    /\ DeleteBegin(m, FALSE)

StoreStep == StoreMkdir \/ StoreOpen \/ StoreWrite \/ StoreReturn

\* the statements of one Store and of one Delete in any order
NextRace ==
    \/ \E t \in Times, v \in Payloads : StoreBegin(t, v)
    \/ StoreMkdir
    \/ StoreOpen
    \/ StoreWrite
    \/ StoreReturn
    \/ \E m \in Minutes : DeleteOther(m)
    \/ WalkTest
    \/ WalkRead
    \/ WalkRemove

SpecRace == Init /\ [][NextRace]_vars /\ WF_vars(StoreStep) /\ WF_vars(WalkStep)

(***************************************************************************)
(* Properties.  A property of a call is stated of every call the state     *)
(* admits: of what the call returns from the state and of the state it     *)
(* leaves.                                                                 *)
(***************************************************************************)
\* t is not later than u
TimeLeq(t, u) ==
    \/ t.min < u.min
    \/ (t.min = u.min /\ t.sec < u.sec)
    \/ (t.min = u.min /\ t.sec = u.sec /\ t.nsec <= u.nsec)

\* what client.Get(from, to) returns in the current state
GetNow(from, to) == GetResults(FindResult(files, Cache, from, to).out)

\* the records of the bucket of minute m, none when it has no file
Bucket(m) ==
    IF timeToPath(m) \in DOMAIN files THEN files[timeToPath(m)] ELSE <<>>

\* the state client.Store(t, v) leaves
AfterStore(t, v) == StoreResult(dirs, files, Cache, t, v)

\* the state client.Delete(from, to) leaves
AfterDelete(from, to) == DeleteResult(dirs, files, Cache, from, to)

C3_GetKeepsStoreOrder ==
    \A from \in Times, to \in Times :
        LET out     == FindResult(files, Cache, from, to).out
            results == GetResults(out)
        IN  \A m \in Minutes :
                TimeLeq(from, m) /\ TimeLeq(UTC(m.min, 59), to) =>
                    LET calls == StoredIn(m)
                        idx   == {i \in 1..Len(out) : out[i].Time.min = m.min}
                    IN  \E off \in 0..Len(results) :
                            /\ idx = (off + 1)..(off + Len(calls))
                            /\ \A k \in 1..Len(calls) :
                                   results[off + k] = calls[k].Data

\* two Store calls into the first minute, second 30 before second 0 and
\* with different payloads, then a Get: over that minute it returns both in
\* the order of the calls
C3_Witness ==
    /\ last.op = "Get"
    /\ LET calls   == StoredIn(UTC(base, 0))
           results == GetNow(UTC(base, 0), UTC(base + 1, 0))
       IN  /\ Len(calls) = 2
           /\ calls[1].Time.sec = 30
           /\ calls[2].Time.sec = 0
           /\ calls[1].Data # calls[2].Data
           /\ Len(results) >= 2
           /\ results[1] = calls[1].Data
           /\ results[2] = calls[2].Data

\* C4: right after a Delete(a, b) with a <= b, Get(a, b) finds no record
\* except records of the minute bucket that contains b.
C4_DeleteThenGetOnlyEndBucket ==
    \A a \in Times, b \in Times :
        TimeLeq(a, b) =>
            LET s    == AfterDelete(a, b)
                left == FindResult(s.files, s.cache, a, b).out
            IN  \A i \in 1..Len(left) : left[i].Time.min = b.min

\* the state a Delete(a, b) leaves in which the file of a's minute is gone,
\* the cache still reports that minute, and Get(a, b) returns a record, from
\* the bucket of b
C4_Witness ==
    /\ last.op = "Delete"
    /\ \E a \in Times, b \in Times :
           /\ a.min < b.min
           /\ AfterDelete(a, b).files = files
           /\ getCache(Cache, a)
           /\ Bucket(Truncate(a)) = <<>>
           /\ GetNow(a, b) # <<>>

\* C5: Delete(from, to) removes the bucket files of exactly the minutes m
\* with truncate(from) <= m < truncate(to) that the cache reports present,
\* and leaves every other file as it was.
C5_DeleteRemovesHalfOpenWindow ==
    \A from \in Times, to \in Times :
        LET window == {m \in Minutes : /\ from.min <= m.min
                                       /\ m.min < to.min
                                       /\ getCache(Cache, m)}
            gone   == {timeToPath(m) : m \in window}
        IN  AfterDelete(from, to).files = [p \in DOMAIN files \ gone |-> files[p]]

\* one record in each of three consecutive minutes: Delete(m0, m0 + 2)
\* removes two files and a Get over the whole range then returns exactly
\* the record of m0 + 2
C5_Witness ==
    /\ last.op = "Store"
    /\ \A k \in 0..2 : Len(Bucket(UTC(base + k, 0))) = 1
    /\ LET s == AfterDelete(UTC(base, 0), UTC(base + 2, 0))
       IN  /\ DOMAIN s.files = {timeToPath(UTC(base + 2, 0))}
           /\ Cardinality(DOMAIN files \ DOMAIN s.files) = 2
           /\ GetResults(FindResult(s.files, s.cache, UTC(base, 0), UTC(base + 2, 0)).out)
                  = <<Bucket(UTC(base + 2, 0))[1].Data>>

\* C6: Find skips no bucket file that exists on disk inside its window,
\* whether or not the cache has an entry for its minute (the file may have
\* been written by another instance on the same root): the in-range
\* entries of the file are handed to fn, in file order, and afterwards the
\* cache reports that minute as present.
C6_FindFallsBackToDisk ==
    \A from \in Times, to \in Times :
        LET r == FindResult(files, Cache, from, to)
        IN  \A m \in Minutes :
                /\ from.min <= m.min
                /\ m.min <= to.min
                /\ FileExists(files, timeToPath(m))
                => /\ getCache(r.cache, m)
                   /\ SelectSeq(r.out, LAMBDA e : e.Time.min = m.min)
                          = readFile(files, timeToPath(m), from, to)

\* the state a Get leaves that started from a cache without the minute of a
\* record on disk: the cache now reports the minute and Get returns the
\* record
C6_Witness ==
    /\ last.op = "Get"
    /\ \E m \in Minutes :
           /\ ~getCache(last.cache, m)
           /\ getCache(Cache, m)
           /\ Bucket(m) # <<>>
           /\ GetNow(m, m) = <<Bucket(m)[1].Data>>

\* C7 as stated: after Delete, the cache reports as absent every minute
\* whose bucket file the call removed.
C7_DeleteClearsCache ==
    \A from \in Times, to \in Times :
        LET s == AfterDelete(from, to)
        IN  \A m \in Minutes :
                FileExists(files, timeToPath(m)) /\ ~FileExists(s.files, timeToPath(m))
                    => ~getCache(s.cache, m)

\* C8 as stated: the cache of the client and the cache a new Init on the
\* same root builds from the disk report the same minutes.
C8_CacheMatchesDisk ==
    \A m \in Minutes :
        getCache(Cache, m) = getCache(buildCache(dirs, files), m)

\* C9 as stated: parsePathToTime(timeToPath(t)) succeeds and returns t
\* truncated to the minute, and no time value of another minute has the
\* path of t.
C9_PathRoundTrip ==
    probe.stage = "parsed" =>
        /\ probe.parsed.ok
        /\ Equal(probe.parsed.t, Truncate(probe.t))
        /\ \A u \in CodecTimes :
               timeToPath(u) = probe.path => Equal(Truncate(u), Truncate(probe.t))

\* C10: the minutes on the two sides of an hour, day, month or year
\* boundary have different paths and different cache cells, and a Get from
\* the minute before the boundary to the minute after it returns the
\* in-range records of the first bucket, then those of the second, each in
\* file order.
C10_GetAcrossBoundary ==
    LET m0 == UTC(base, 0)
        m1 == UTC(base + 1, 0)
    IN  /\ Hour(m0) # Hour(m1)
        /\ timeToPath(m0) # timeToPath(m1)
        /\ CellIndex(m0) # CellIndex(m1)
        /\ \A from \in Times :
               from.min = base =>
                   GetNow(from, m1)
                       = GetResults(readFile(files, timeToPath(m0), from, m1)
                                    \o Bucket(m1))

\* a Get at a year boundary with a record in the last minute of the year
\* and one in the first minute of the next: it returns both, the old year's
\* first
C10_Witness ==
    /\ last.op = "Get"
    /\ base = YearEnd
    /\ Year(UTC(base, 0)) + 1 = Year(UTC(base + 1, 0))
    /\ Len(Bucket(UTC(base, 0))) = 1
    /\ Len(Bucket(UTC(base + 1, 0))) = 1
    /\ GetNow(UTC(base, 0), UTC(base + 1, 0))
           = <<Bucket(UTC(base, 0))[1].Data, Bucket(UTC(base + 1, 0))[1].Data>>

\* C11: a Store in which a statement fails (the verification of the byte
\* count included) returns an error, leaves every bucket file with what it
\* held and with what the write added, and leaves the cache as it was; a
\* Store returns nil only when no statement fails, and only then is the
\* cache entry of the truncated minute set by it.
C11_FailedStoreLeavesCache ==
    \A t \in Times, v \in Payloads, fault \in Faults \cup {NoFault} :
        CanStore =>
            LET r    == StoreSteps(dirs, files, Cache, t, v, fault)
                path == timeToPath(Truncate(t))
                old  == Bucket(Truncate(t))
            IN  /\ r.err <=> fault \in Faults
                /\ r.err =>
                       /\ r.cache = Cache
                       /\ \A p \in DOMAIN files :
                              /\ p \in DOMAIN r.files
                              /\ SubSeq(r.files[p], 1, Len(files[p])) = files[p]
                       /\ fault \in {"WriteTorn", "Verify"} =>
                              r.files[path] = old \o <<Torn>>
                /\ ~r.err => getCache(r.cache, Truncate(t))
                /\ \A m \in Minutes :
                       getCache(r.cache, m) /\ ~getCache(Cache, m) => ~r.err

\* the state a failed Store leaves: the bucket ends in the bytes of a
\* record cut short, and the cache does not report its minute
C11_Witness ==
    /\ last.op = "Store"
    /\ last.err
    /\ \E m \in FaultMinutes :
           /\ Bucket(m) # <<>>
           /\ IsTorn(Bucket(m)[Len(Bucket(m))])
           /\ ~getCache(Cache, m)

\* the timestamps of entries never decrease along the sequence
Ascending(entries) ==
    \A i \in 1..Len(entries), j \in 1..Len(entries) :
        i < j => TimeLeq(entries[i].Time, entries[j].Time)

\* the Store calls into minute m whose timestamp is in [from, to], in the
\* order of the calls
StoredInRange(m, from, to) ==
    SelectSeq(StoredIn(m), LAMBDA call : InRange(call, from, to))

\* C12: Find hands over the records bucket by bucket in ascending minute
\* order: no record of a later minute comes before a record of an earlier
\* one, and the records of one bucket come in the order in which they were
\* appended.
C12_FindVisitsBucketsInOrder ==
    \A from \in Times, to \in Times :
        LET out == FindResult(files, Cache, from, to).out
        IN  /\ \A i \in 1..Len(out), j \in 1..Len(out) :
                   i < j => out[i].Time.min <= out[j].Time.min
            /\ \A m \in Minutes :
                   SelectSeq(out, LAMBDA e : e.Time.min = m.min)
                       = StoredInRange(m, from, to)

\* a Get over a bucket stored at second 30 and then at second 0 and a
\* bucket of the next minute: Find hands over the three records, the first
\* bucket's in the order stored, then the second bucket's
C12_Witness ==
    /\ last.op = "Get"
    /\ LET calls == StoredIn(UTC(base, 0))
           next  == StoredIn(UTC(base + 1, 0))
           out   == FindResult(files, Cache, UTC(base, 0), UTC(base + 1, 0)).out
       IN  /\ Len(calls) = 2
           /\ Len(next) = 1
           /\ calls[1].Time.sec = 30
           /\ calls[2].Time.sec = 0
           /\ out = calls \o next

\* C13 as stated: Get returns the matching payloads in ascending timestamp
\* order, for any order in which the records were stored.
C13_GetIsInTimestampOrder ==
    \A from \in Times, to \in Times :
        Ascending(FindResult(files, Cache, from, to).out)

\* C13 amended: Get returns the matching payloads bucket by bucket in
\* ascending minute order and, inside a bucket, in the order stored; the
\* result is in ascending timestamp order exactly when the in-range records
\* of every bucket were stored in non-decreasing timestamp order.
C13_GetIsAscendingIffStoredAscending ==
    \A from \in Times, to \in Times :
        LET out == FindResult(files, Cache, from, to).out
        IN  /\ GetResults(out)
                   = GetResults(SelectSeq(out, LAMBDA e : e.Time.min = base)
                                \o SelectSeq(out, LAMBDA e : e.Time.min > base))
            /\ Ascending(out)
                   <=> \A m \in Minutes : Ascending(StoredInRange(m, from, to))

\* a Get over a bucket stored at second 0 and then at second 30 and a
\* bucket of the next minute: the three payloads come back in ascending
\* timestamp order
C13_Witness ==
    /\ last.op = "Get"
    /\ LET calls == StoredIn(UTC(base, 0))
           next  == StoredIn(UTC(base + 1, 0))
           out   == FindResult(files, Cache, UTC(base, 0), UTC(base + 1, 0)).out
       IN  /\ Len(calls) = 2
           /\ Len(next) = 1
           /\ calls[1].Time.sec = 0
           /\ calls[2].Time.sec = 30
           /\ Ascending(out)
           /\ GetResults(out) = <<calls[1].Data, calls[2].Data, next[1].Data>>

\* C14: Init on a root path that does not exist, and Init with an empty
\* root path, returns no error and a client with an empty cache; while no
\* bucket file exists every Get of that client returns no records and no
\* error, and a Store on it succeeds, leaves the root directory in place
\* and is read back by Get(t, t).
C14_InitOnMissingOrEmptyRoot ==
    (last.op = "Init" /\ (Root \notin dirs \/ Opts.Path = EmptyPath)) =>
        /\ ~last.err
        /\ Cache = {}
        /\ files = EmptyFS =>
               \A from, to \in Times :
                   LET r == FindResult(files, Cache, from, to)
                   IN  r.out = <<>> /\ ~r.err
        /\ \A t \in Times, v \in Payloads :
               CanStore =>
                   LET s   == AfterStore(t, v)
                       got == GetResults(FindResult(s.files, s.cache, t, t).out)
                   IN  /\ ~s.err
                       /\ Root \in s.dirs
                       /\ got # <<>> /\ got[Len(got)] = v

\* Init has returned on a root directory that does not exist
C14_Witness == last.op = "Init" /\ Root \notin dirs /\ Opts.Path # EmptyPath

\* every record on disk is later than t
AllAfter(t) ==
    \A p \in DOMAIN files : \A i \in 1..Len(files[p]) :
        ~TimeLeq(files[p][i].Time, t)

\* every record on disk is earlier than t
AllBefore(t) ==
    \A p \in DOMAIN files : \A i \in 1..Len(files[p]) :
        ~TimeLeq(t, files[p][i].Time)

\* C15: a Find or Get whose range from..to ends before every stored record,
\* or starts after every stored record, delivers no record and returns no
\* error.
C15_RangeOutsideDataIsEmpty ==
    \A from, to \in Times :
        (TimeLeq(from, to) /\ (AllAfter(to) \/ AllBefore(from))) =>
            LET r == FindResult(files, Cache, from, to)
            IN  r.out = <<>> /\ GetResults(r.out) = <<>> /\ ~r.err

\* a Get has returned while records are on disk, some range ends before all
\* of them inside the minute of the first, and some range starts after all
\* of them
C15_Witness ==
    /\ last.op = "Get"
    /\ files # EmptyFS
    /\ \E from, to \in Times :
           /\ TimeLeq(from, to) /\ AllAfter(to)
           /\ FileExists(files, timeToPath(Truncate(to)))
    /\ \E from, to \in Times : TimeLeq(from, to) /\ AllBefore(from)

\* the entries of the minute m among entries
OfMinute(entries, m) == SelectSeq(entries, LAMBDA e : Truncate(e.Time) = m)

\* C16: a missing bucket file is no error.  Find returns no error, hands
\* over nothing for a minute of its window whose cache bit is set and whose
\* file is gone, and hands over the in-range records of every other minute
\* of the window; Delete returns nil whatever buckets are missing in its
\* window.
C16_MissingFileIsNoError ==
    \A from, to \in Times :
        /\ LET r == FindResult(files, Cache, from, to)
           IN  /\ ~r.err
               /\ \A m \in Minutes :
                      OfMinute(r.out, m) =
                          IF m.min >= Truncate(from).min /\ m.min <= Truncate(to).min
                          THEN SelectSeq(Bucket(m), LAMBDA e : InRange(e, from, to))
                          ELSE <<>>
        /\ ~AfterDelete(from, to).err

\* a Delete has returned, the cache bit of a minute is set while its file
\* is gone, and a later minute has its file
C16_Witness ==
    /\ last.op = "Delete"
    /\ \E m, n \in Minutes :
           /\ getCache(Cache, m)
           /\ ~FileExists(files, timeToPath(m))
           /\ m.min < n.min
           /\ FileExists(files, timeToPath(n))
           /\ getCache(Cache, n)

\* the minute m lies in the window of Find(from, to)
InWindow(m, from, to) ==
    m.min >= Truncate(from).min /\ m.min <= Truncate(to).min

\* the bucket file of the minute m is there and does not decode to its end
FailsToDecode(m) ==
    FileExists(files, timeToPath(m)) /\ DecodeFails(files[timeToPath(m)])

\* C17: when a bucket of Find's window fails to decode, Find returns an
\* error; it has handed over the in-range records of the earlier minutes
\* of the window and the in-range records that precede the failure in the
\* first failing bucket, and nothing of any later minute.  Without such a
\* bucket Find returns no error.
C17_DecodeErrorStopsFind ==
    \A from, to \in Times :
        LET r       == FindResult(files, Cache, from, to)
            failing == {m \in Minutes : InWindow(m, from, to) /\ FailsToDecode(m)}
        IN  IF failing = {} THEN ~r.err
            ELSE LET f == CHOOSE m \in failing : \A n \in failing : m.min <= n.min
                 IN  /\ r.err
                     /\ \A m \in Minutes :
                            OfMinute(r.out, m) =
                                IF InWindow(m, from, to) /\ m.min < f.min
                                THEN SelectSeq(Bucket(m), LAMBDA e : InRange(e, from, to))
                                ELSE IF m = f
                                THEN SelectSeq(Decoded(Bucket(f)),
                                               LAMBDA e : InRange(e, from, to))
                                ELSE <<>>

\* a Get has returned an error; the failing bucket holds a record ahead of
\* the failure and a later minute holds a record too
C17_Witness ==
    /\ last.op = "Get" /\ last.err
    /\ \E m, n \in Minutes :
           /\ m.min < n.min
           /\ FailsToDecode(m) /\ Decoded(Bucket(m)) # <<>>
           /\ Bucket(n) # <<>>

\* C18: Delete's pruning removes only empty directories and stops at the
\* root: whatever the configured root path, a Delete leaves the root
\* directory in place, and every directory it removes holds neither a file
\* nor a directory afterwards.
C18_PruningStopsAtRoot ==
    \A from, to \in Times :
        LET d == AfterDelete(from, to)
        IN  /\ Root \in dirs => Root \in d.dirs
            /\ \A dir \in dirs \ d.dirs : ReadDir(d.dirs, d.files, dir) = {}

\* C19: a Get or Find whose to is earlier than its from delivers no record
\* and returns no error.
C19_InvertedRangeIsEmpty ==
    \A from, to \in Times :
        ~TimeLeq(from, to) =>
            LET r == FindResult(files, Cache, from, to)
            IN  r.out = <<>> /\ GetResults(r.out) = <<>> /\ ~r.err

\* a Get has returned while some from and to, to earlier than from, lie in
\* one minute whose bucket holds records, and some lie in two minutes that
\* both have a bucket
C19_Witness ==
    /\ last.op = "Get"
    /\ \E from, to \in Times :
           /\ ~TimeLeq(from, to)
           /\ Truncate(from) = Truncate(to)
           /\ Bucket(Truncate(from)) # <<>>
    /\ \E from, to \in Times :
           /\ ~TimeLeq(from, to)
           /\ Truncate(from) # Truncate(to)
           /\ Bucket(Truncate(from)) # <<>>
           /\ Bucket(Truncate(to)) # <<>>

\* a visitor that asks Find to stop: what the callback of the documented
\* early-stop use returns for an entry, FALSE for the payload it looks for
visit(entry) == entry.Data # 2

\* C20: Find stops as soon as the callback returns false: of the entries
\* Find hands to the callback, only the last can be one for which the
\* callback returns false; and Find returns no error.
C20_FindStopsWhenVisitorSaysSo ==
    \A from, to \in Times :
        LET r == FindResult(files, Cache, from, to)
        IN  /\ \A i \in 1..(Len(r.out) - 1) : visit(r.out[i])
            /\ ~r.err

\* C21: a successful Store(t, v) changes the bucket of t only by appending
\* one record whose Data is v and whose Time is the instant t at full
\* precision: every bucket holds, in call order, one such record for each
\* Store call into its minute.
C21_StoreAppendsFullPrecisionRecord ==
    /\ DOMAIN files = DOMAIN stored
    /\ \A p \in DOMAIN files :
           /\ Len(files[p]) = Len(stored[p])
           /\ \A i \in 1..Len(files[p]) :
                  /\ files[p][i].Data = stored[p][i].Data
                  /\ Equal(files[p][i].Time, stored[p][i].Time)

\* the records at path in fs, none when there is no file
At(fs, path) == IF path \in DOMAIN fs THEN fs[path] ELSE <<>>

\* C22: a Store, successful or failed, leaves every bucket other than the
\* one of its minute as it was, file and content, and leaves what the
\* cache reports for every other minute as it was.
C22_StoreTouchesOneBucket ==
    [][last'.op = "Store" =>
         \E t \in Minutes :
             \A m \in Minutes \ {t} :
                 /\ FileExists(files', timeToPath(m)) = FileExists(files, timeToPath(m))
                 /\ At(files', timeToPath(m)) = At(files, timeToPath(m))
                 /\ getCache(Cache', m) = getCache(Cache, m)]_vars

\* C23: Init's walk passes over an entry that is a directory, has another
\* extension or does not parse as year/month/day/hour/minute.cbor: Init
\* returns no error, every bucket file under the root has its cache entry,
\* and the cache reports no year without a bucket file.
C23_WalkSkipsStrayEntries ==
    last.op = "Init" =>
        /\ ~last.err
        /\ \A m \in Minutes :
               FileExists(files, timeToPath(m)) => getCache(Cache, m)
        /\ \A y \in Cache :
               \E m \in Minutes : Year(m) = y /\ FileExists(files, timeToPath(m))

\* Init has returned on a root that holds a bucket of each year next to a
\* directory named like a bucket, a file with another extension and two
\* .cbor files that do not parse
C23_Witness ==
    /\ last.op = "Init"
    /\ StrayDir \in dirs
    /\ StrayFiles \subseteq DOMAIN files
    /\ \E m, n \in Minutes :
           /\ Year(m) # Year(n)
           /\ FileExists(files, timeToPath(m))
           /\ FileExists(files, timeToPath(n))

\* C24: Get(from, to) returns the payloads of the entries Find(from, to, fn)
\* hands to fn, one for each and in the same order, with the error Find
\* returns; when Find fails partway these are the payloads handed over
\* before the failure.
C24_GetIsFind ==
    \A from, to \in Times :
        LET g == GetResult(files, Cache, from, to)
            f == FindResult(files, Cache, from, to)
        IN  /\ Len(g.results) = Len(f.out)
            /\ \A i \in 1..Len(f.out) : g.results[i] = f.out[i].Data
            /\ g.err = f.err
            /\ g.cache = f.cache

\* a Get has returned an error and, for some window, Find fails after it
\* has handed over an entry
C24_Witness ==
    /\ last.op = "Get" /\ last.err
    /\ \E from, to \in Times :
           LET f == FindResult(files, Cache, from, to)
           IN  f.err /\ f.out # <<>>

\* every directory from dir up to the root that ds holds
Ancestors(ds, dir) == {SubSeq(dir, 1, k) : k \in 0..Len(dir)} \cap ds

\* C25: when os.Remove fails on a bucket of Delete's window with an error
\* other than file-not-found, Delete returns an error; what the cache
\* reports for that bucket is unchanged, the bucket and every later bucket
\* keep their files and directories, and the buckets of the earlier
\* minutes of the window are removed.  Without such a failure Delete
\* returns no error.
C25_RemoveErrorStopsDelete ==
    \A from, to \in Times : \A m \in Minutes :
        LET d    == DeleteSteps(dirs, files, Cache, from, to, {timeToPath(m)})
            hit  == /\ m.min >= Truncate(from).min /\ m.min < Truncate(to).min
                    /\ getCache(Cache, m)
                    /\ FileExists(files, timeToPath(m))
        IN  IF ~hit THEN ~d.err
            ELSE /\ d.err
                 /\ getCache(d.cache, m) = getCache(Cache, m)
                 /\ \A n \in Minutes :
                        IF n.min >= m.min
                        THEN /\ FileExists(d.files, timeToPath(n))
                                    = FileExists(files, timeToPath(n))
                             /\ At(d.files, timeToPath(n)) = At(files, timeToPath(n))
                             /\ FileExists(files, timeToPath(n)) =>
                                    Ancestors(dirs, PathDir(timeToPath(n))) \subseteq d.dirs
                        ELSE (n.min >= Truncate(from).min /\ getCache(Cache, n)) =>
                                    ~FileExists(d.files, timeToPath(n))

\* a Delete has returned an error: the bucket that cannot be removed and a
\* later bucket are in place, an earlier bucket the cache reports is gone
C25_Witness ==
    /\ last.op = "Delete" /\ last.err
    /\ \E k, n \in Minutes :
           /\ k.min < DeniedMinute.min /\ DeniedMinute.min < n.min
           /\ getCache(Cache, k) /\ ~FileExists(files, timeToPath(k))
           /\ FileExists(files, timeToPath(DeniedMinute))
           /\ FileExists(files, timeToPath(n))

C27_InitCacheHasNoFalsePositive ==
    last.op = "Init" =>
        \A m \in Minutes : getCache(Cache, m) => FileExists(files, timeToPath(m))

\* C28: in the slice-backed engine, after Init and after every Store and
\* Delete, Client.Cache is in ascending time order and no two of its
\* entries have the same time.
C28_SliceCacheSortedAndUnique ==
    \A i, j \in 1..Len(Cache) :
        i < j => Before(Cache[i].Time, Cache[j].Time)

\* a Store has returned and the slice holds three entries, the first of
\* them for the first minute
C28_Witness ==
    /\ last.op = "Store"
    /\ Len(Cache) = 3
    /\ Cache[1].Time.min = base

\* C29: Get depends on instants only: for every instant u, Get(u, u) with u
\* in UTC returns as many entries as Store calls were made with a timestamp
\* of the instant u, whatever the location of that timestamp.
C29_GetIgnoresLocation ==
    \A u \in Times :
        Len(GetResult(files, Cache, u, u).results)
            = Cardinality({c \in {<<path, i>> : path \in DOMAIN stored, i \in 1..MaxRecords} :
                              /\ c[2] <= Len(stored[c[1]])
                              /\ Equal(stored[c[1]][c[2]].Time, u)})

\* C30 as stated: Delete(from, to) removes no record whose timestamp lies
\* outside [from, to]; a record of from's minute that is earlier than from
\* is still in its bucket after the Delete.
C30_DeleteSparesRecordsOutsideRange ==
    \A from \in Times, to \in Times :
        \A path \in DOMAIN files :
            (\E i \in 1..Len(files[path]) :
                 \/ Before(files[path][i].Time, from)
                 \/ After(files[path][i].Time, to))
                => /\ FileExists(AfterDelete(from, to).files, path)
                   /\ AfterDelete(from, to).files[path] = files[path]

\* C30 amended: Delete(from, to) removes no record whose minute lies outside
\* [truncate(from), truncate(to)); a record of from's minute that is earlier
\* than from is removed with its bucket when truncate(from) is before
\* truncate(to).
C30_DeleteSparesBucketsOutsideRange ==
    \A from \in Times, to \in Times :
        LET after == AfterDelete(from, to).files
        IN  \A path \in DOMAIN files :
                \A i \in 1..Len(files[path]) :
                    LET minute == Truncate(files[path][i].Time)
                    IN  /\ (\/ Before(minute, Truncate(from))
                            \/ ~Before(minute, Truncate(to)))
                               => /\ FileExists(after, path)
                                  /\ after[path] = files[path]
                        /\ (/\ Equal(minute, Truncate(from))
                            /\ Before(files[path][i].Time, from)
                            /\ Before(Truncate(from), Truncate(to)))
                               => ~FileExists(after, path)

\* a Delete has returned that removed the bucket of the first minute, which
\* this client had stored into, and left the bucket of the next minute
C30_Witness ==
    /\ last.op = "Delete"
    /\ getCache(Cache, UTC(base, 0))
    /\ ~FileExists(files, timeToPath(UTC(base, 0)))
    /\ FileExists(files, timeToPath(UTC(base + 1, 0)))

\* C31: when Delete has removed the bucket of a minute, pruned or not, a
\* Store into that minute returns no error, leaves the directories of the
\* bucket in place from the root down, and a Get over that minute then
\* returns the newly stored record and nothing else.
C31_StoreAfterDeleteStartsAfresh ==
    \A from, to \in Times :
        LET d == AfterDelete(from, to)
        IN  \A t \in Times, v \in Payloads :
                LET path == timeToPath(Truncate(t))
                    s    == StoreSteps(d.dirs, d.files, d.cache, t, v, NoFault)
                IN  FileExists(files, path) /\ ~FileExists(d.files, path)
                        => /\ ~s.err
                           /\ \A k \in 0..Len(PathDir(path)) :
                                  SubSeq(PathDir(path), 1, k) \in s.dirs
                           /\ s.files[path] = <<Marshal(t, v)>>
                           /\ \A lo, hi \in Times :
                                  /\ Truncate(lo) = Truncate(t)
                                  /\ Truncate(hi) = Truncate(t)
                                  /\ TimeLeq(lo, t)
                                  /\ TimeLeq(t, hi)
                                  => GetResult(s.files, s.cache, lo, hi).results = <<v>>

\* a Delete has returned that removed the only bucket of this client and
\* pruned its directories up to the root; the disk has room for a Store
C31_Witness ==
    /\ last.op = "Delete"
    /\ ~last.err
    /\ getCache(Cache, UTC(base, 0))
    /\ files = EmptyFS
    /\ dirs = {Root}
    /\ CanStore

\* C32: every call of cleanEmptyDirs returns: once the loop is at its
\* condition, it reaches the end of the function.
C32_cleanEmptyDirsTerminates == (walk.pc = "test") ~> (walk.pc = "done")

\* C33: when a Store into a minute runs next to a Delete of another minute
\* whose pruning walks the same directories, then under every interleaving
\* of their statements the Store that has returned either returned an
\* error or its record is in the bucket file of its minute, and stays
\* there while and after the pruning runs
C33_StoreSurvivesPruning ==
    put.pc = "done" =>
        \/ put.err
        \/ /\ \A k \in 0..Len(PathDir(PutPath)) :
                  SubSeq(PathDir(PutPath), 1, k) \in dirs
           /\ FileExists(files, PutPath)
           /\ \E i \in 1..Len(files[PutPath]) :
                  files[PutPath][i] = Marshal(put.t, put.v)

\* Store returned nil while the Delete of another minute, having read the
\* directory of the Store's bucket as empty, is about to remove it
C33_Witness ==
    /\ put.pc = "done"
    /\ ~put.err
    /\ walk.pc = "remove"
    /\ walk.min # put.t.min
    /\ walk.dir = DirString(PathDir(PutPath))

\* C34: Find and Get change nothing on disk, no file and no directory, and
\* the only change they make to what the cache reports is that a minute
\* whose bucket file is on disk, reported absent before, is reported
\* present.
C34_FindChangesOnlyFoundMinutes ==
    [][last'.op = "Get" =>
         /\ files' = files
         /\ dirs' = dirs
         /\ \A m \in Minutes :
                getCache(Cache', m) # getCache(Cache, m) =>
                    /\ getCache(Cache', m)
                    /\ FileExists(files, timeToPath(m))]_vars

============================================================================
